---- MODULE Spec2Model ----
(***************************************************************************)
(* Model of rebench/configurator.py: the run-filter classes (_VMFilter,    *)
(* _SuiteFilter, _BenchmarkFilter, _RunFilter) and the Configurator        *)
(* (construction, CLI option processing, experiment resolution and         *)
(* compilation, accessors).                                                *)
(*                                                                         *)
(* Filter tokens, and the names they carry, are sequences of one-character *)
(* strings so that str.split(":") is computed rather than assumed.         *)
(* Experiment names, file names and option values are plain strings.       *)
(***************************************************************************)
EXTENDS Integers, Sequences, FiniteSets, TLC

VARIABLES
    pc,                 \* position in Configurator.__init__ / lifetime of a _RunFilter
    run_filter,         \* argument run_filter: a list of tokens, or None
    filter,             \* the _RunFilter object (buckets) or the exception its __init__ raised
    bench,              \* argument of the last _RunFilter.applies call
    applied,            \* return value of the last _RunFilter.applies call
    file_config,        \* the document load_config returns
    cli_options,        \* argument cli_options as passed by the caller
    exp_name,           \* argument exp_name (stored as self._exp_name)
    standard_data_file, \* argument standard_data_file
    raw_config,         \* self._raw_config
    options,            \* self._options
    probe_output,       \* output of the "nice" subprocess, when it was run
    log_level,          \* level of the root logger
    runs,               \* self.runs
    build_commands,     \* self._build_commands
    conf_defs,          \* local conf_defs of _compile_experiments
    todo,               \* names the loop of _compile_experiments has still to visit
    calls,              \* calls of the Experiment constructor, in order
    experiments,        \* self._experiments
    next_id,            \* number of dict objects allocated for conf_defs
    err,                \* exception that ended construction
    result              \* value returned (or exception raised) by the last accessor call

vars == << pc, run_filter, filter, bench, applied, file_config, cli_options,
           exp_name, standard_data_file, raw_config, options, probe_output,
           log_level, runs, build_commands, conf_defs, todo, calls,
           experiments, next_id, err, result >>

(***************************************************************************)
(* Bounds                                                                  *)
(***************************************************************************)
MaxTokens == 3
MaxConfTokens == 1
MaxExperiments == 2

(***************************************************************************)
(* Python values                                                           *)
(***************************************************************************)
None == "None"
Absent == "<absent>"
NoneObject == [is_none |-> TRUE]

PyList(items) == [is_none |-> FALSE, items |-> items]

\* truth value of a str-or-None
Truthy(x) == x # None /\ x # ""

\* truth value of a list-or-None
TruthyList(l) == l # NoneObject /\ l.items # <<>>

NoError == [type |-> "none", message |-> <<>>]

Raise(type, message) == [type |-> type, message |-> message]

(***************************************************************************)
(* Names and filter tokens, as sequences of characters                     *)
(***************************************************************************)
Colon == ":"
VmPrefix == <<"v", "m">>
SuitePrefix == <<"s">>

VmNames == { <<"J">>, <<"C">> }
SuiteNames == { <<"1">>, <<"2">> }
BenchmarkNames == { <<"A">>, <<"B">> }
AllNames == VmNames \cup SuiteNames \cup BenchmarkNames

Benchmarks ==
    [vm : [name : VmNames], suite : [name : SuiteNames], name : BenchmarkNames]

Tok_vm_J == VmPrefix \o <<Colon>> \o <<"J">>
Tok_vm_C == VmPrefix \o <<Colon>> \o <<"C">>
Tok_s_1 == SuitePrefix \o <<Colon>> \o <<"1">>
Tok_s_2 == SuitePrefix \o <<Colon>> \o <<"2">>
Tok_s_2_A == SuitePrefix \o <<Colon>> \o <<"2">> \o <<Colon>> \o <<"A">>
Tok_bad == <<"b", "a", "d">>
Tok_s == SuitePrefix
Tok_s_4parts == Tok_s_2_A \o <<Colon>> \o <<"B">>
Tok_x_J == <<"x">> \o <<Colon>> \o <<"J">>
Tok_vm == VmPrefix
Tok_vm_J_C == Tok_vm_J \o <<Colon>> \o <<"C">>

WellFormedPool == { Tok_vm_J, Tok_vm_C, Tok_s_1, Tok_s_2, Tok_s_2_A }
MalformedPool == { Tok_bad, Tok_s, Tok_s_4parts, Tok_x_J, Tok_vm, Tok_vm_J_C }
TokenPool == WellFormedPool \cup MalformedPool

SeqsUpTo(S, n) == UNION { [1..k -> S] : k \in 0..n }

(***************************************************************************)
(* str.split(":")                                                          *)
(***************************************************************************)
RECURSIVE SplitFrom(_, _, _, _)
SplitFrom(s, i, cur, acc) ==
    IF i > Len(s) THEN Append(acc, cur)
    ELSE IF s[i] = Colon THEN SplitFrom(s, i + 1, <<>>, Append(acc, cur))
    ELSE SplitFrom(s, i + 1, Append(cur, s[i]), acc)

split(s) == SplitFrom(s, 1, <<>>, <<>>)

(***************************************************************************)
(* _VMFilter, _SuiteFilter, _BenchmarkFilter                               *)
(***************************************************************************)
VMFilter(name) == [kind |-> "vm", name |-> name]

SuiteFilter(name) == [kind |-> "suite", name |-> name]

BenchmarkFilter(suite_name, benchmark_name) ==
    [kind |-> "benchmark", name |-> suite_name, benchmark_name |-> benchmark_name]

VMFilter_matches(f, b) == b.vm.name = f.name

SuiteFilter_matches(f, b) == b.suite.name = f.name

BenchmarkFilter_matches(f, b) ==
    IF ~SuiteFilter_matches(f, b) THEN FALSE
    ELSE b.name = f.benchmark_name

\* dynamic dispatch of run_filter.matches(bench)
matches(f, b) ==
    CASE f.kind = "vm" -> VMFilter_matches(f, b)
      [] f.kind = "suite" -> SuiteFilter_matches(f, b)
      [] f.kind = "benchmark" -> BenchmarkFilter_matches(f, b)

(***************************************************************************)
(* _RunFilter                                                              *)
(***************************************************************************)
UnknownFilterPrefix == "Unknown filter expression: "

\* "Unknown filter expression: " + run_filter
UnknownFilterMessage(token) == <<UnknownFilterPrefix>> \o token

\* The object under construction; raised is the exception that left __init__,
\* at is the index of the token it was raised for.
RunFilterObject(vm_filters, suite_filters, raised, at) ==
    [vm_filters |-> vm_filters, suite_filters |-> suite_filters,
     raised |-> raised, at |-> at]

\* RunFilterStep with a bug: a matcher equal to one already in its bucket is
\* not added again.
RunFilterStep_unique(self, token, i) ==
    LET parts == split(token)
        AddOnce(bucket, m) ==
            IF \E k \in 1..Len(bucket) : bucket[k] = m THEN bucket ELSE Append(bucket, m)
    IN
    IF parts[1] = VmPrefix THEN
        IF Len(parts) < 2
        THEN [self EXCEPT !.raised = Raise("IndexError", <<"list index out of range">>),
                          !.at = i]
        ELSE [self EXCEPT !.vm_filters = AddOnce(@, VMFilter(parts[2]))]
    ELSE IF parts[1] = SuitePrefix /\ Len(parts) = 2 THEN
        [self EXCEPT !.suite_filters = AddOnce(@, SuiteFilter(parts[2]))]
    ELSE IF parts[1] = SuitePrefix /\ Len(parts) = 3 THEN
        [self EXCEPT !.suite_filters = AddOnce(@, BenchmarkFilter(parts[2], parts[3]))]
    ELSE
        [self EXCEPT !.raised = Raise("Exception", UnknownFilterMessage(token)),
                     !.at = i]

\* One iteration of the for loop of __init__: the object after token number i.
RunFilterStep(self, token, i) ==
    LET parts == split(token) IN
    IF parts[1] = VmPrefix THEN
        IF Len(parts) < 2
        THEN [self EXCEPT !.raised = Raise("IndexError", <<"list index out of range">>),
                          !.at = i]
        ELSE [self EXCEPT !.vm_filters = Append(@, VMFilter(parts[2]))]
    ELSE IF parts[1] = SuitePrefix /\ Len(parts) = 2 THEN
        [self EXCEPT !.suite_filters = Append(@, SuiteFilter(parts[2]))]
    ELSE IF parts[1] = SuitePrefix /\ Len(parts) = 3 THEN
        [self EXCEPT !.suite_filters = Append(@, BenchmarkFilter(parts[2], parts[3]))]
    ELSE
        [self EXCEPT !.raised = Raise("Exception", UnknownFilterMessage(token)),
                     !.at = i]

RECURSIVE RunFilterLoop(_, _, _)
RunFilterLoop(self, tokens, i) ==
    IF i > Len(tokens) \/ self.raised # NoError THEN self
    ELSE RunFilterLoop(RunFilterStep(self, tokens[i], i), tokens, i + 1)

\* _RunFilter.__init__(run_filters)
RunFilter_init(run_filters) ==
    LET self == RunFilterObject(<<>>, <<>>, NoError, 0) IN
    IF ~TruthyList(run_filters) THEN self
    ELSE RunFilterLoop(self, run_filters.items, 1)

RECURSIVE MatchFrom(_, _, _)
MatchFrom(filters, b, i) ==
    IF i > Len(filters) THEN FALSE
    ELSE IF matches(filters[i], b) THEN TRUE
    ELSE MatchFrom(filters, b, i + 1)

\* RunFilter_match with a bug: every matcher of the bucket has to match.
RunFilter_match_every(filters, b) ==
    \A i \in 1..Len(filters) : matches(filters[i], b)

\* _RunFilter._match(filters, bench)
RunFilter_match(filters, b) ==
    IF filters = <<>> THEN TRUE
    ELSE MatchFrom(filters, b, 1)

\* _RunFilter.applies(bench)
RunFilter_applies(self, b) ==
    RunFilter_match(self.vm_filters, b) /\ RunFilter_match(self.suite_filters, b)

Unbuilt == [unbuilt |-> TRUE]
NoBench == [no_bench |-> TRUE]

(***************************************************************************)
(* can_set_niceness and Configurator._process_cli_options                  *)
(***************************************************************************)
\* What "nice -n-20 echo test" prints, as a sequence of text fragments.
ProbeNotRun == <<>>
ProbeOutputs ==
    { <<"test">>,
      <<"nice: ", "cannot set niceness", ": ", "Permission denied", "\ntest">>,
      <<"nice: setpriority: ", "Permission denied", "\ntest">> }

\* needle in output
Contains(output, needle) == \E i \in 1..Len(output) : output[i] = needle

\* can_set_niceness with a bug: only one of the two messages is looked for.
can_set_niceness_one_message(output) ==
    IF Contains(output, "cannot set niceness") THEN FALSE ELSE TRUE

can_set_niceness(output) ==
    IF Contains(output, "cannot set niceness") \/ Contains(output, "Permission denied")
    THEN FALSE
    ELSE TRUE

\* logging.getLogger().setLevel(...) of _process_cli_options
LoggingLevel(opts) ==
    IF opts.debug THEN
        IF opts.verbose THEN "NOTSET" ELSE "DEBUG"
    ELSE "ERROR"

\* Configurator._process_cli_options(options): the returned object; output is
\* what the niceness probe prints if it is run.
process_cli_options(opts, output) ==
    IF opts = NoneObject THEN NoneObject
    ELSE IF opts.use_nice /\ ~can_set_niceness(output)
         THEN [opts EXCEPT !.use_nice = FALSE]
         ELSE opts

OptionObjects ==
    [debug : BOOLEAN, verbose : BOOLEAN, use_nice : BOOLEAN,
     do_builds : BOOLEAN, clean : BOOLEAN]

(***************************************************************************)
(* The configuration document and its users                                *)
(***************************************************************************)
All == "all"
DefaultBuildLog == "build.log"

ExperimentKeys == <<"e1", "e2", "e3", "e4">>

\* the experiments mapping, as its keys in iteration order
ExperimentTables == { SubSeq(ExperimentKeys, 1, k) : k \in 1..MaxExperiments }

Range(seq) == { seq[i] : i \in 1..Len(seq) }

\* dict.get(key, default)
Get(config, key, default) == IF config[key] = Absent THEN default ELSE config[key]

\* self._raw_config['experiments'][exp_name]
ExperimentDefinition(config, name) == [definition_of |-> name]

\* LoadAndOverride with a bug: the override only fills in a missing value.
LoadAndOverride_setdefault(loaded, override) ==
    IF Truthy(override) /\ loaded.standard_data_file = Absent
    THEN [loaded EXCEPT !.standard_data_file = override]
    ELSE loaded

\* Configurator.__init__, lines 149-151
LoadAndOverride(loaded, override) ==
    IF Truthy(override)
    THEN [loaded EXCEPT !.standard_data_file = override]
    ELSE loaded

\* RunsConfig(**self._raw_config.get('runs', {}))
RunsConfig(section) == [runs_config_of |-> section]

\* Configurator.experiment_name(): the value returned or the exception raised
experiment_name(name, config) ==
    IF Truthy(name) THEN [raised |-> NoError, value |-> name]
    ELSE IF config.standard_experiment = Absent
         THEN [raised |-> Raise("KeyError", <<"standard_experiment">>), value |-> None]
         ELSE [raised |-> NoError, value |-> config.standard_experiment]

NoExperimentChosen == Raise("ValueError", <<"No experiment chosen.">>)

\* "Requested experiment '%s' not available." % self.experiment_name()
NotAvailable(name) ==
    Raise("ValueError", <<"Requested experiment '", name, "' not available.">>)

\* The Experiment constructor, as the arguments it is given
Experiment(name, exp_def, run_cfg, data_file, clean, filters, opts) ==
    [name |-> name, exp_def |-> exp_def, run_cfg |-> run_cfg,
     standard_data_file |-> data_file, clean |-> clean,
     run_filter |-> filters, options |-> opts]

\* Configurator._compile_experiment(exp_name, cli_reporter, run_filter)
compile_experiment(name, config, run_cfg, opts, filters) ==
    Experiment(name, ExperimentDefinition(config, name), run_cfg,
               Get(config, "standard_data_file", None),
               IF opts # NoneObject THEN opts.clean ELSE FALSE,
               filters, opts)

\* Experiment.get_runs(): two experiments may share a run
Experiment_get_runs(exp) == { <<"run", exp.name>>, <<"run", "shared">> }

NoDict == [id |-> 0, map |-> <<>>]
NoResult == [call |-> "none"]

\* select_experiments with a bug: the requested name is not looked up.
select_experiments_unchecked(name, config) ==
    LET chosen == experiment_name(name, config) IN
    IF chosen.raised # NoError
    THEN [raised |-> chosen.raised, names |-> <<>>, dict_made |-> FALSE]
    ELSE IF ~Truthy(chosen.value)
    THEN [raised |-> NoExperimentChosen, names |-> <<>>, dict_made |-> FALSE]
    ELSE IF chosen.value = All
    THEN [raised |-> NoError, names |-> config.experiments, dict_made |-> TRUE]
    ELSE [raised |-> NoError, names |-> <<chosen.value>>, dict_made |-> TRUE]

\* select_experiments with a bug: "all" stops after the first experiment.
select_experiments_first(name, config) ==
    LET chosen == experiment_name(name, config) IN
    IF chosen.raised # NoError
    THEN [raised |-> chosen.raised, names |-> <<>>, dict_made |-> FALSE]
    ELSE IF ~Truthy(chosen.value)
    THEN [raised |-> NoExperimentChosen, names |-> <<>>, dict_made |-> FALSE]
    ELSE IF chosen.value = All
    THEN [raised |-> NoError, names |-> <<Head(config.experiments)>>, dict_made |-> TRUE]
    ELSE IF chosen.value \notin Range(config.experiments)
    THEN [raised |-> NotAvailable(chosen.value), names |-> <<>>, dict_made |-> TRUE]
    ELSE [raised |-> NoError, names |-> <<chosen.value>>, dict_made |-> TRUE]

\* Configurator._compile_experiments, lines 228-241: the names to compile, or
\* the exception raised before anything is compiled
select_experiments(name, config) ==
    LET chosen == experiment_name(name, config) IN
    IF chosen.raised # NoError
    THEN [raised |-> chosen.raised, names |-> <<>>, dict_made |-> FALSE]
    ELSE IF ~Truthy(chosen.value)
    THEN [raised |-> NoExperimentChosen, names |-> <<>>, dict_made |-> FALSE]
    ELSE IF chosen.value = All
    THEN [raised |-> NoError, names |-> config.experiments, dict_made |-> TRUE]
    ELSE IF chosen.value \notin Range(config.experiments)
    THEN [raised |-> NotAvailable(chosen.value), names |-> <<>>, dict_made |-> TRUE]
    ELSE [raised |-> NoError, names |-> <<chosen.value>>, dict_made |-> TRUE]

\* get_experiments with a bug: a copy of the map is handed out.
get_experiments_copy(self_experiments) == [self_experiments EXCEPT !.id = @ + 1]

\* Configurator.get_experiments()
get_experiments(self_experiments) == self_experiments

\* Configurator.get_experiment(name)
get_experiment(self_experiments, name) ==
    IF name \in DOMAIN self_experiments.map
    THEN [raised |-> NoError, value |-> self_experiments.map[name]]
    ELSE [raised |-> Raise("KeyError", <<name>>), value |-> None]

\* Configurator.get_runs()
get_runs(self_experiments) ==
    UNION { Experiment_get_runs(self_experiments.map[n]) : n \in DOMAIN self_experiments.map }

\* Configurator.build_log
build_log(config) == Get(config, "build_log", DefaultBuildLog)

\* Configurator.use_nice
use_nice(opts) == opts # NoneObject /\ opts.use_nice

\* Configurator.do_builds
do_builds(opts) == opts # NoneObject /\ opts.do_builds

(***************************************************************************)
(* Inputs                                                                  *)
(***************************************************************************)
FilterArguments ==
    {NoneObject} \cup { PyList(l) : l \in SeqsUpTo(TokenPool, MaxTokens) }

ConfTokenPool == { Tok_vm_J, Tok_bad, Tok_vm_J_C }

ConfFilterArguments ==
    {NoneObject} \cup { PyList(l) : l \in SeqsUpTo(ConfTokenPool, MaxConfTokens) }

Documents ==
    [standard_experiment : {Absent, "", "e1"},
     experiments : ExperimentTables,
     standard_data_file : {Absent, "conf.data"},
     build_log : {Absent, "my.log"},
     runs : {Absent}]

ExperimentArguments == {None, All, "e2"}
DataFileArguments == {None, "cli.data"}
OptionArguments == {NoneObject} \cup OptionObjects
AskedNames == {"e1", "nope"}

SomeDocument ==
    [standard_experiment |-> "e1", experiments |-> <<"e1">>,
     standard_data_file |-> Absent, build_log |-> Absent, runs |-> Absent]

(***************************************************************************)
(* Initial states                                                          *)
(***************************************************************************)
Fresh ==
    /\ filter = Unbuilt
    /\ bench = NoBench
    /\ applied = FALSE
    /\ raw_config = NoneObject
    /\ options = NoneObject
    /\ probe_output = ProbeNotRun
    /\ log_level = "WARNING"
    /\ runs = NoneObject
    /\ build_commands = NoneObject
    /\ conf_defs = NoDict
    /\ todo = <<>>
    /\ calls = <<>>
    /\ experiments = NoDict
    /\ next_id = 0
    /\ err = NoError
    /\ result = NoResult

\* Configurator(file_name, data_store, cli_options, cli_reporter, exp_name,
\*              standard_data_file, run_filter) is entered
Init ==
    /\ pc = "load"
    /\ run_filter \in ConfFilterArguments
    /\ file_config \in Documents
    /\ cli_options \in OptionArguments
    /\ exp_name \in ExperimentArguments
    /\ standard_data_file \in DataFileArguments
    /\ Fresh

\* _RunFilter(run_filters) is entered on its own
InitFilter ==
    /\ pc = "new"
    /\ run_filter \in FilterArguments
    /\ file_config = SomeDocument
    /\ cli_options = NoneObject
    /\ exp_name = None
    /\ standard_data_file = None
    /\ Fresh

(***************************************************************************)
(* _RunFilter on its own                                                   *)
(***************************************************************************)
NewRunFilter ==
    /\ pc = "new"
    /\ filter' = RunFilter_init(run_filter)
    /\ pc' = IF filter'.raised # NoError THEN "raised" ELSE "built"
    /\ err' = filter'.raised
    /\ UNCHANGED << run_filter, bench, applied, file_config, cli_options, exp_name,
                    standard_data_file, raw_config, options, probe_output, log_level,
                    runs, build_commands, conf_defs, todo, calls, experiments,
                    next_id, result >>

Applies ==
    /\ pc = "built"
    /\ \E b \in Benchmarks :
        /\ bench' = b
        /\ applied' = RunFilter_applies(filter, b)
    /\ UNCHANGED << pc, run_filter, filter, file_config, cli_options, exp_name,
                    standard_data_file, raw_config, options, probe_output, log_level,
                    runs, build_commands, conf_defs, todo, calls, experiments,
                    next_id, err, result >>

(***************************************************************************)
(* Configurator.__init__                                                   *)
(***************************************************************************)
\* lines 149-151
Load ==
    /\ pc = "load"
    /\ raw_config' = LoadAndOverride(file_config, standard_data_file)
    /\ pc' = "cli"
    /\ UNCHANGED << run_filter, filter, bench, applied, file_config, cli_options,
                    exp_name, standard_data_file, options, probe_output, log_level,
                    runs, build_commands, conf_defs, todo, calls, experiments,
                    next_id, err, result >>

\* lines 153-154
ProcessCliOptions ==
    /\ pc = "cli"
    /\ \E output \in ProbeOutputs :
        /\ options' = process_cli_options(cli_options, output)
        /\ probe_output' = IF cli_options # NoneObject /\ cli_options.use_nice
                           THEN output ELSE ProbeNotRun
    /\ log_level' = IF cli_options = NoneObject THEN log_level
                    ELSE LoggingLevel(cli_options)
    /\ pc' = "runs"
    /\ UNCHANGED << run_filter, filter, bench, applied, file_config, cli_options,
                    exp_name, standard_data_file, raw_config, runs, build_commands,
                    conf_defs, todo, calls, experiments, next_id, err, result >>

\* lines 156-159
BuildRunsConfig ==
    /\ pc = "runs"
    /\ runs' = RunsConfig(Get(raw_config, "runs", "{}"))
    /\ build_commands' = <<>>
    /\ pc' = "filter"
    /\ UNCHANGED << run_filter, filter, bench, applied, file_config, cli_options,
                    exp_name, standard_data_file, raw_config, options, probe_output,
                    log_level, conf_defs, todo, calls, experiments, next_id, err,
                    result >>

\* line 161: the argument _RunFilter(run_filter) is evaluated before the call
BuildRunFilter ==
    /\ pc = "filter"
    /\ filter' = RunFilter_init(run_filter)
    /\ IF filter'.raised # NoError
       THEN pc' = "failed" /\ err' = filter'.raised
       ELSE pc' = "compile" /\ err' = err
    /\ UNCHANGED << run_filter, bench, applied, file_config, cli_options, exp_name,
                    standard_data_file, raw_config, options, probe_output, log_level,
                    runs, build_commands, conf_defs, todo, calls, experiments,
                    next_id, result >>

\* _compile_experiments, lines 228-241
CompileExperimentsBegin ==
    /\ pc = "compile"
    /\ LET selected == select_experiments(exp_name, raw_config) IN
        /\ IF selected.raised # NoError
           THEN pc' = "failed" /\ err' = selected.raised /\ todo' = todo
           ELSE pc' = "loop" /\ err' = err /\ todo' = selected.names
        /\ IF selected.dict_made
           THEN conf_defs' = [id |-> next_id + 1, map |-> <<>>] /\ next_id' = next_id + 1
           ELSE UNCHANGED << conf_defs, next_id >>
    /\ UNCHANGED << run_filter, filter, bench, applied, file_config, cli_options,
                    exp_name, standard_data_file, raw_config, options, probe_output,
                    log_level, runs, build_commands, calls, experiments, result >>

\* _compile_experiments, lines 234-237 and 242-243: one Experiment is built
CompileExperiment ==
    /\ pc = "loop"
    /\ todo # <<>>
    /\ LET name == Head(todo)
           exp == compile_experiment(name, raw_config, runs, options, filter)
       IN /\ calls' = Append(calls, exp)
          /\ conf_defs' = [conf_defs EXCEPT !.map = (name :> exp) @@ @]
    /\ todo' = Tail(todo)
    /\ UNCHANGED << pc, run_filter, filter, bench, applied, file_config, cli_options,
                    exp_name, standard_data_file, raw_config, options, probe_output,
                    log_level, runs, build_commands, experiments, next_id, err,
                    result >>

\* line 245 and the assignment of line 160
CompileExperimentsReturn ==
    /\ pc = "loop"
    /\ todo = <<>>
    /\ experiments' = conf_defs
    /\ pc' = "done"
    /\ UNCHANGED << run_filter, filter, bench, applied, file_config, cli_options,
                    exp_name, standard_data_file, raw_config, options, probe_output,
                    log_level, runs, build_commands, conf_defs, todo, calls, next_id,
                    err, result >>

(***************************************************************************)
(* Accessors of a constructed Configurator                                 *)
(***************************************************************************)
Returned(call, value) == [call |-> call, raised |-> NoError, value |-> value]

AccessorFrame ==
    UNCHANGED << pc, run_filter, filter, bench, applied, file_config, cli_options,
                 exp_name, standard_data_file, raw_config, options, probe_output,
                 log_level, runs, build_commands, conf_defs, todo, calls,
                 experiments, next_id, err >>

GetExperiments ==
    /\ pc = "done"
    /\ result' = Returned("get_experiments", get_experiments(experiments))
    /\ AccessorFrame

GetExperiment ==
    /\ pc = "done"
    /\ \E name \in AskedNames :
        LET r == get_experiment(experiments, name) IN
        result' = [call |-> "get_experiment", raised |-> r.raised, value |-> r.value]
    /\ AccessorFrame

GetRuns ==
    /\ pc = "done"
    /\ result' = Returned("get_runs", get_runs(experiments))
    /\ AccessorFrame

ExperimentName ==
    /\ pc = "done"
    /\ LET r == experiment_name(exp_name, raw_config) IN
        result' = [call |-> "experiment_name", raised |-> r.raised, value |-> r.value]
    /\ AccessorFrame

BuildLog ==
    /\ pc = "done"
    /\ result' = Returned("build_log", build_log(raw_config))
    /\ AccessorFrame

Options ==
    /\ pc = "done"
    /\ result' = Returned("options", options)
    /\ AccessorFrame

UseNice ==
    /\ pc = "done"
    /\ result' = Returned("use_nice", use_nice(options))
    /\ AccessorFrame

DoBuilds ==
    /\ pc = "done"
    /\ result' = Returned("do_builds", do_builds(options))
    /\ AccessorFrame

(***************************************************************************)
(* Specifications                                                          *)
(***************************************************************************)
Next ==
    \/ Load
    \/ ProcessCliOptions
    \/ BuildRunsConfig
    \/ BuildRunFilter
    \/ CompileExperimentsBegin
    \/ CompileExperiment
    \/ CompileExperimentsReturn
    \/ GetExperiments
    \/ GetExperiment
    \/ GetRuns
    \/ ExperimentName
    \/ BuildLog
    \/ Options
    \/ UseNice
    \/ DoBuilds

Spec == Init /\ [][Next]_vars

NextFilter ==
    \/ NewRunFilter
    \/ Applies

SpecFilter == InitFilter /\ [][NextFilter]_vars

(***************************************************************************)
(* The filter token grammar, stated on the text of a token                 *)
(***************************************************************************)
VmToken(n) == VmPrefix \o <<Colon>> \o n
SuiteToken(n) == SuitePrefix \o <<Colon>> \o n
BenchmarkToken(n, m) == SuitePrefix \o <<Colon>> \o n \o <<Colon>> \o m

WellFormed(t) ==
    \/ \E n \in AllNames : t = VmToken(n)
    \/ \E n \in AllNames : t = SuiteToken(n)
    \/ \E n \in AllNames : \E m \in AllNames : t = BenchmarkToken(n, m)

StartsWith(t, prefix) ==
    Len(t) >= Len(prefix) /\ SubSeq(t, 1, Len(prefix)) = prefix

IsVmPrefixed(t) == StartsWith(t, VmPrefix \o <<Colon>>)
IsSuitePrefixed(t) == StartsWith(t, SuitePrefix \o <<Colon>>)

\* the token a matcher was made from
TokenOf(m) ==
    CASE m.kind = "vm" -> VmToken(m.name)
      [] m.kind = "suite" -> SuiteToken(m.name)
      [] m.kind = "benchmark" -> BenchmarkToken(m.name, m.benchmark_name)

TokensOf(bucket) == [i \in 1..Len(bucket) |-> TokenOf(bucket[i])]

Tokens == IF run_filter = NoneObject THEN <<>> ELSE run_filter.items

AllWellFormed == \A i \in 1..Len(Tokens) : WellFormed(Tokens[i])

SomeMalformed == \E i \in 1..Len(Tokens) : ~WellFormed(Tokens[i])

FirstMalformed ==
    CHOOSE i \in 1..Len(Tokens) :
        ~WellFormed(Tokens[i]) /\ \A j \in 1..(i - 1) : WellFormed(Tokens[j])

FilterConstructed == pc \in {"built", "raised"}

(***************************************************************************)
(* C1: for a filter built from well-formed tokens, applies(bench) is true  *)
(* exactly when (the VM bucket is empty or some VM matcher's name equals   *)
(* the benchmark's VM name) and (the suite/benchmark bucket is empty or    *)
(* some matcher in it matches: a suite matcher on equal suite name, a      *)
(* benchmark matcher on equal suite name and equal benchmark name); with   *)
(* no tokens applies is true for every benchmark.                          *)
(***************************************************************************)
C1_BucketMatches(bucket, b) ==
    \/ bucket = <<>>
    \/ \E i \in 1..Len(bucket) :
        \/ bucket[i].kind = "vm" /\ bucket[i].name = b.vm.name
        \/ bucket[i].kind = "suite" /\ bucket[i].name = b.suite.name
        \/ /\ bucket[i].kind = "benchmark"
           /\ bucket[i].name = b.suite.name
           /\ bucket[i].benchmark_name = b.name

C1_AppliesIsAndOfOrs ==
    (pc = "built" /\ bench # NoBench /\ AllWellFormed) =>
        /\ applied = (C1_BucketMatches(filter.vm_filters, bench)
                      /\ C1_BucketMatches(filter.suite_filters, bench))
        /\ (Tokens = <<>> => applied = TRUE)

C1_Witness ==
    /\ pc = "built" /\ bench # NoBench /\ AllWellFormed
    /\ Len(filter.vm_filters) = 1
    /\ Len(filter.suite_filters) = 2
    /\ filter.suite_filters[1].kind = "suite"
    /\ filter.suite_filters[2].kind = "benchmark"
    /\ ~SuiteFilter_matches(filter.suite_filters[1], bench)
    /\ applied = TRUE

(***************************************************************************)
(* C2: a token that is not of the shape vm:<name>, s:<suite> or            *)
(* s:<suite>:<benchmark> makes the construction of the filter stop at that *)
(* token with the filter-syntax error, whose message holds the token       *)
(* verbatim, and no matcher is made for it.                                *)
(***************************************************************************)
C2_MalformedTokenRaisesSyntaxError ==
    (FilterConstructed /\ SomeMalformed) =>
        /\ pc = "raised"
        /\ filter.raised.type = "Exception"
        /\ filter.raised.message = <<UnknownFilterPrefix>> \o Tokens[FirstMalformed]
        /\ filter.at = FirstMalformed
        /\ Len(filter.vm_filters) + Len(filter.suite_filters) = FirstMalformed - 1

(***************************************************************************)
(* C3: for a non-empty list of well-formed tokens the construction of the  *)
(* filter raises nothing, the VM bucket holds one matcher per vm-prefixed  *)
(* token and the suite/benchmark bucket one per s-prefixed token,          *)
(* duplicates counted, each bucket in token order.                         *)
(***************************************************************************)
C3_BucketsMirrorTokens ==
    (FilterConstructed /\ Tokens # <<>> /\ AllWellFormed) =>
        /\ pc = "built"
        /\ filter.raised = NoError
        /\ TokensOf(filter.vm_filters) = SelectSeq(Tokens, IsVmPrefixed)
        /\ TokensOf(filter.suite_filters) = SelectSeq(Tokens, IsSuitePrefixed)
        /\ \A i \in 1..Len(filter.vm_filters) : filter.vm_filters[i].kind = "vm"
        /\ \A i \in 1..Len(filter.suite_filters) :
            filter.suite_filters[i].kind \in {"suite", "benchmark"}

C3_Witness ==
    /\ pc = "built" /\ AllWellFormed
    /\ Len(Tokens) = 3
    /\ Tokens[1] = Tokens[3]
    /\ IsVmPrefixed(Tokens[1])
    /\ Len(filter.vm_filters) = 2
    /\ Len(filter.suite_filters) = 1

(***************************************************************************)
(* What the caller of Configurator(...) can see of experiment resolution   *)
(***************************************************************************)
\* _compile_experiments has been entered
ResolutionReached ==
    /\ pc \in {"loop", "done", "failed"}
    /\ filter # Unbuilt
    /\ filter.raised = NoError

CliNameGiven == exp_name # None /\ exp_name # ""

StandardExperimentGiven ==
    file_config.standard_experiment # Absent /\ file_config.standard_experiment # ""

\* the name the claims call the resolved experiment name
WantedName ==
    IF CliNameGiven THEN exp_name ELSE file_config.standard_experiment

ConfiguredKeys == Range(file_config.experiments)

CalledNames == [i \in 1..Len(calls) |-> calls[i].name]

\* the constructor acted on name n: it compiled or is compiling what n selects,
\* or it failed naming n
ActedOnName(n) ==
    /\ pc = "failed" => err = NotAvailable(n)
    /\ pc # "failed" =>
        CalledNames \o todo = IF n = All THEN file_config.experiments ELSE <<n>>
    /\ (pc = "done" /\ result.call = "experiment_name") =>
        (result.raised = NoError /\ result.value = n)

NothingCompiled == calls = <<>> /\ experiments = NoDict

(***************************************************************************)
(* C4: the resolved experiment name is the CLI-supplied name when one is   *)
(* given and otherwise the configuration's standard_experiment; with no    *)
(* CLI name and no standard_experiment in the configuration, resolution    *)
(* fails with the 'No experiment chosen' error and compiles nothing.       *)
(***************************************************************************)
C4_NameResolutionOrNoExperimentChosen ==
    ResolutionReached =>
        IF CliNameGiven \/ StandardExperimentGiven
        THEN ActedOnName(WantedName)
        ELSE pc = "failed" /\ err = NoExperimentChosen /\ NothingCompiled

(***************************************************************************)
(* C5: when the resolved name is not "all" and is not a key of the         *)
(* experiments mapping, resolution raises the error naming the requested   *)
(* experiment with the Experiment constructor called zero times and no     *)
(* experiment map produced.                                                *)
(***************************************************************************)
C5_UnknownNameFailsBeforeCompiling ==
    ( /\ ResolutionReached
      /\ CliNameGiven \/ StandardExperimentGiven
      /\ WantedName # All
      /\ WantedName \notin ConfiguredKeys ) =>
        /\ pc = "failed"
        /\ err = NotAvailable(WantedName)
        /\ NothingCompiled

C5_Witness ==
    /\ pc = "failed"
    /\ ResolutionReached
    /\ exp_name = "e2"
    /\ "e2" \notin ConfiguredKeys
    /\ err = NotAvailable("e2")
    /\ calls = <<>>

(***************************************************************************)
(* C6: with the resolved name "all" every key of the experiments mapping   *)
(* is compiled exactly once and the compiled map has exactly those keys    *)
(* (get_experiments() has that size); with any other key of the mapping    *)
(* the compiled map has exactly that one key.                              *)
(***************************************************************************)
C6_TimesCompiled(n) == Cardinality({ i \in 1..Len(calls) : calls[i].name = n })

C6_CompiledKeysAreTheSelection ==
    pc = "done" =>
        LET selection == IF WantedName = All THEN ConfiguredKeys ELSE {WantedName}
        IN  /\ selection \subseteq ConfiguredKeys
            /\ DOMAIN experiments.map = selection
            /\ \A n \in selection : C6_TimesCompiled(n) = 1
            /\ Len(calls) = Cardinality(selection)
            /\ \A n \in selection : experiments.map[n].name = n
            /\ result.call = "get_experiments" =>
                Cardinality(DOMAIN result.value.map) = Cardinality(selection)

C6_Witness ==
    /\ pc = "done"
    /\ WantedName = All
    /\ Cardinality(ConfiguredKeys) >= 2
    /\ DOMAIN experiments.map = ConfiguredKeys
    /\ result.call = "get_experiments"

(***************************************************************************)
(* C7: after construction no accessor call changes the compiled experiment *)
(* map or compiles anything, and every get_experiments() returns the very  *)
(* map that construction computed.                                         *)
(***************************************************************************)
C7_AccessorsKeepTheCompiledMap ==
    [][pc = "done" =>
        /\ pc' = "done"
        /\ experiments' = experiments
        /\ calls' = calls
        /\ next_id' = next_id
        /\ experiments.id = 1
        /\ result'.call = "get_experiments" => result'.value = experiments]_vars

C7_Witness ==
    /\ pc = "done"
    /\ result.call = "get_experiments"
    /\ result.value = experiments
    /\ Len(calls) >= 2
    /\ next_id = 1

(***************************************************************************)
(* C8: CLI option processing returns None for None; otherwise use_nice is  *)
(* false afterwards exactly when it was false before or the niceness probe *)
(* reported unavailable, debug, verbose, do_builds and clean are as they   *)
(* were, and construction goes on after a probe that reported unavailable. *)
(***************************************************************************)
C8_ProbeUnavailable(output) ==
    \E i \in 1..Len(output) :
        output[i] \in {"cannot set niceness", "Permission denied"}

C9_ExpectedDataFile ==
    IF standard_data_file # None THEN standard_data_file
    ELSE IF file_config.standard_data_file = Absent THEN None
    ELSE file_config.standard_data_file

C9_OverrideReachesEveryExperiment ==
    /\ (pc # "load" /\ standard_data_file # None) =>
        raw_config.standard_data_file = standard_data_file
    /\ \A i \in 1..Len(calls) : calls[i].standard_data_file = C9_ExpectedDataFile
    /\ \A n \in DOMAIN experiments.map :
        experiments.map[n].standard_data_file = C9_ExpectedDataFile

C9_Witness ==
    /\ pc = "done"
    /\ standard_data_file = "cli.data"
    /\ file_config.standard_data_file = "conf.data"
    /\ Len(calls) >= 2
    /\ calls[2].standard_data_file = "cli.data"

(***************************************************************************)
(* C10: whenever the filter token list holds a malformed token,            *)
(* construction fails with the filter-syntax error after the CLI options   *)
(* have been processed and before experiment resolution starts: nothing is *)
(* compiled and the filter-syntax error reaches the caller, also when the  *)
(* experiment name is missing or unknown.                                  *)
(***************************************************************************)
C10_MalformedFilterStopsConstruction ==
    (SomeMalformed /\ pc \notin {"load", "cli", "runs", "filter"}) =>
        /\ pc = "failed"
        /\ err = Raise("Exception", <<UnknownFilterPrefix>> \o Tokens[FirstMalformed])
        /\ log_level = (IF cli_options = NoneObject THEN "WARNING"
                        ELSE LoggingLevel(cli_options))
        /\ runs # NoneObject
        /\ conf_defs = NoDict
        /\ NothingCompiled

====
